---- MODULE Spec2Model ----
(***************************************************************************)
(* Model of the jsonio read pipeline: SourceClassifier.classify_source     *)
(* (src/jsonio/_classifier.py), BackendResolver.resolve_backend            *)
(* (src/jsonio/_resolver.py) with load_backend (src/jsonio/backend/        *)
(* __init__.py), JsonIOReader.read (src/jsonio/_jsonio.py), Loader.open    *)
(* (src/jsonio/_loader.py) and ReaderConfig (src/jsonio/_config.py).       *)
(*                                                                         *)
(* Text is a sequence of one-character strings.  pathlib is modelled as    *)
(* PurePosixPath (the POSIX flavour of Path).                              *)
(***************************************************************************)
EXTENDS Naturals, Sequences, FiniteSets

VARIABLES
    source,     \* classify_source: the `source` argument
    flags,      \* classify_source: the `flags` argument (set of flag names)
    fs,         \* what the filesystem holds at the candidate path
    fs0,        \* what it held there before the call
    cpc,        \* classify_source: position of the call
    cresult,    \* classify_source: what the call returned or raised
    fsops,      \* filesystem operations performed by the call, in order
    config,     \* resolve_backend: the ReaderConfig argument
    importable, \* backend modules whose import succeeds in the environment
    rpc,        \* resolve_backend: position of the call
    rresult,    \* resolve_backend: what the call returned or raised
    imports,    \* number of importlib.import_module attempts of the call
    installs,   \* number of installer.install() invocations of the call
    loaded,     \* what load_backend returned or raised to resolve_backend
    tpc,        \* concurrent resolve_backend calls: position of each caller
    tresult,    \* concurrent resolve_backend calls: outcome of each caller
    tinstalls,  \* installer.install() invocations of all callers together
    rdsource,   \* JsonIOReader.read: the `source` argument
    rdflags,    \* JsonIOReader.read: the `flags` argument
    rdopts,     \* JsonIOReader.read: decoder_cls / validate arguments, reader flags
    rdpc,       \* JsonIOReader.read: position of the call
    rdresult,   \* JsonIOReader.read: what the call returned or raised
    rdlog,      \* JsonIOReader.read: the steps the call went through, in order
    backend_instance, \* JsonIOReader._backend_instance ("<unset>": no such attribute)
    backend_got, \* the values the `backend` property gave its callers, in order
    norm_source, \* Loader.open: the `norm_source` argument
    src_type,   \* Loader.open: the `src_type` argument
    encoding,   \* Loader.open: the `encoding` argument
    backend_size_hint, \* Loader.open: the `backend_size_hint` argument
    st_size,    \* size of the file at the path, as path.stat() reports it
    stream_pos, \* how much of the caller's stream has been read
    stream_pos0, \* how much of it had been read before the call
    opc,        \* Loader.open: position of the call
    oresult,    \* Loader.open: what the call returned or raised
    olog,       \* Loader.open: the operations the call performed, in order
    ppc,        \* concurrent probing classifications: position of each
    presult     \* concurrent probing classifications: outcome of each

cvars == <<source, flags, fs, fs0, cpc, cresult, fsops>>
rvars == <<config, importable, rpc, rresult, imports, installs, loaded, tpc, tresult, tinstalls>>
rdvars == <<rdsource, rdflags, rdopts, rdpc, rdresult, rdlog, backend_instance, backend_got>>
lvars == <<norm_source, src_type, encoding, backend_size_hint, st_size, stream_pos,
           stream_pos0, opc, oresult, olog>>
pvars == <<ppc, presult>>
vars == <<source, flags, fs, fs0, cpc, cresult, fsops,
          config, importable, rpc, rresult, imports, installs, loaded, tpc, tresult, tinstalls,
          rdsource, rdflags, rdopts, rdpc, rdresult, rdlog, backend_instance, backend_got,
          norm_source, src_type, encoding, backend_size_hint, st_size, stream_pos,
          stream_pos0, opc, oresult, olog, ppc, presult>>

----------------------------------------------------------------------------
(* Bounds *)

\* a text is the concatenation of at most MaxPieces pieces
MaxPieces == 3

\* a caller reads the `backend` property at most MaxAccess times
MaxAccess == 2

\* a stream or a bytes payload holds at most MaxData items
MaxData == 2

\* file sizes and size hints range over 0..MaxSize
MaxSize == 2

----------------------------------------------------------------------------
(* Text helpers *)

StartsWith(s, p) == Len(s) >= Len(p) /\ SubSeq(s, 1, Len(p)) = p

EndsWith(s, p) == Len(s) >= Len(p) /\ SubSeq(s, Len(s) - Len(p) + 1, Len(s)) = p

ContainsSub(s, p) == \E i \in 1..(Len(s) - Len(p) + 1) : SubSeq(s, i, i + Len(p) - 1) = p

HTTP == <<"h", "t", "t", "p", ":", "/", "/">>

HTTPS == <<"h", "t", "t", "p", "s", ":", "/", "/">>

DOTJSON == <<".", "j", "s", "o", "n">>

\* the pieces texts are built from
Pieces == {HTTP, HTTPS, DOTJSON, <<"/">>, <<".">>, <<"a">>, <<"{">>, <<"[">>, <<"\"">>, <<" ">>}

RECURSIVE TextsUpTo(_)
TextsUpTo(n) ==
    IF n = 0 THEN {<<>>}
    ELSE LET prev == TextsUpTo(n - 1)
         IN  prev \cup {t \o p : t \in prev, p \in Pieces}

AllTexts == TextsUpTo(MaxPieces)

----------------------------------------------------------------------------
(* pathlib.Path(text) followed by str(path), POSIX flavour *)

RECURSIVE Parts(_, _)
Parts(s, cur) ==
    IF s = <<>> THEN <<cur>>
    ELSE IF Head(s) = "/" THEN <<cur>> \o Parts(Tail(s), <<>>)
    ELSE Parts(Tail(s), Append(cur, Head(s)))

KeptParts(s) == SelectSeq(Parts(s, <<>>), LAMBDA c : c # <<>> /\ c # <<".">>)

RECURSIVE JoinParts(_)
JoinParts(ps) ==
    IF ps = <<>> THEN <<>>
    ELSE IF Len(ps) = 1 THEN ps[1]
    ELSE ps[1] \o <<"/">> \o JoinParts(Tail(ps))

PathRoot(s) ==
    IF ~StartsWith(s, <<"/">>) THEN <<>>
    ELSE IF StartsWith(s, <<"/", "/">>) /\ ~StartsWith(s, <<"/", "/", "/">>) THEN <<"/", "/">>
    ELSE <<"/">>

PosixStr(s) ==
    LET root == PathRoot(s)
        body == JoinParts(KeptParts(s))
    IN  IF root = <<>> /\ body = <<>> THEN <<".">> ELSE root \o body

----------------------------------------------------------------------------
(* Vocabulary *)

Flags == {"SAFE", "NETWORK_SOURCES", "DYNAMIC_BACKEND", "RUNTIME_INSTALL",
          "IS_PATH", "IS_JSON", "FS_PROBE"}

SourceType == {"URL", "PATH", "JSON_STR", "BYTES", "STREAM"}

SUPPORTED_NETWORK_PROTOCOLS == {HTTP, HTTPS}

\* the flags classify_source looks at
ClassifyFlags == {"SAFE", "IS_PATH", "IS_JSON", "FS_PROBE"}

\* the shapes of a `source` argument; "path" is a pathlib.Path instance,
\* "stream" any object with a read attribute, "other" anything else
Shapes == {"none", "str", "path", "bytes", "stream", "other"}

Src(shape, text, strOk) == [shape |-> shape, text |-> text, strOk |-> strOk]

\* strOk: whether str(source) returns (text is then what it returns)
Sources ==
    {Src("none", <<>>, TRUE)}
    \cup {Src("str", t, TRUE) : t \in AllTexts}
    \cup {Src("path", PosixStr(t), TRUE) : t \in AllTexts}
    \cup {Src("bytes", t, TRUE) : t \in {<<"{", "}">>, <<"a">>}}
    \cup {Src("stream", <<"{", "}">>, TRUE)}
    \cup {Src("other", <<"a">>, ok) : ok \in BOOLEAN}

FsStates == {"absent", "file", "dir"}

Returned(kind, ptype, text) ==
    [status |-> "return", kind |-> kind, ptype |-> ptype, text |-> text, err |-> "-"]

Raised(err) ==
    [status |-> "raise", kind |-> "-", ptype |-> "-", text |-> <<>>, err |-> err]

Pending == [status |-> "pending", kind |-> "-", ptype |-> "-", text |-> <<>>, err |-> "-"]

----------------------------------------------------------------------------
(* SourceClassifier *)

cant_contain == {<<"{">>, <<"[">>, <<"\"">>, <<"'">>, <<"b", "'">>, <<"b", "\"">>}

\* the character class [a-zA-Z0-9_\-\/\\\.]
PathChars ==
    {"a", "b", "c", "d", "e", "f", "g", "h", "i", "j", "k", "l", "m",
     "n", "o", "p", "q", "r", "s", "t", "u", "v", "w", "x", "y", "z",
     "A", "B", "C", "D", "E", "F", "G", "H", "I", "J", "K", "L", "M",
     "N", "O", "P", "Q", "R", "S", "T", "U", "V", "W", "X", "Y", "Z",
     "0", "1", "2", "3", "4", "5", "6", "7", "8", "9",
     "_", "-", "/", "\\", "."}

\* re.match(r"^[...]+$", string): `$` also matches before one trailing newline
path_regex(string) ==
    LET core == IF Len(string) >= 1 /\ string[Len(string)] = "\n"
                THEN SubSeq(string, 1, Len(string) - 1) ELSE string
    IN  Len(core) >= 1 /\ \A i \in 1..Len(core) : core[i] \in PathChars

\* `string` is str(path)
SafeIsPath(string) ==
    IF EndsWith(string, DOTJSON) THEN TRUE
    ELSE IF \E c \in cant_contain : ContainsSub(string, c) THEN FALSE
    ELSE IF ~path_regex(string) THEN FALSE
    ELSE TRUE

\* Probes with the FS_PROBE test of _unsafe_is_path left out
Probes_WheneverUnsafe(fl) == "SAFE" \notin fl

\* Probes with the SAFE test of _is_path left out
Probes_IgnoringSafe(fl) == "FS_PROBE" \in fl

\* _is_path / _unsafe_is_path reach path.touch() under exactly these flags
Probes(fl) == "SAFE" \notin fl /\ "FS_PROBE" \in fl

\* Rules1to4 with the forced kinds tested before the absent source
Rules1to4_FlagsFirst(src, fl) ==
    IF "IS_JSON" \in fl THEN
        IF src.shape # "str" THEN Raised("ValueError: IS_JSON flag is set but not a string")
        ELSE Returned("JSON_STR", "str", src.text)
    ELSE IF src.shape = "none" THEN Raised("ValueError: Cannot read from None")
    ELSE IF "IS_PATH" \in fl THEN
        IF src.shape \in {"str", "path"} THEN Returned("PATH", "Path", PosixStr(src.text))
        ELSE Raised("TypeError: Path(source)")
    ELSE IF src.shape = "str" /\ \E p \in SUPPORTED_NETWORK_PROTOCOLS : StartsWith(src.text, p)
        THEN Returned("URL", "str", src.text)
    ELSE Pending

\* classify_source up to and including URL detection; Pending: none applies
Rules1to4(src, fl) ==
    IF src.shape = "none" THEN Raised("ValueError: Cannot read from None")
    ELSE IF "IS_JSON" \in fl THEN
        IF src.shape # "str" THEN Raised("ValueError: IS_JSON flag is set but not a string")
        ELSE Returned("JSON_STR", "str", src.text)
    ELSE IF "IS_PATH" \in fl THEN
        IF src.shape \in {"str", "path"} THEN Returned("PATH", "Path", PosixStr(src.text))
        ELSE Raised("TypeError: Path(source)")
    ELSE IF src.shape = "str" /\ \E p \in SUPPORTED_NETWORK_PROTOCOLS : StartsWith(src.text, p)
        THEN Returned("URL", "str", src.text)
    ELSE Pending

\* classify_source once the path heuristic has said yes
PathFound(src) == Returned("PATH", "Path", PosixStr(src.text))

\* classify_source after the path heuristic has said no or did not apply
Rules6to8(src) ==
    IF src.shape = "bytes" THEN Returned("BYTES", "bytes", src.text)
    ELSE IF src.shape = "stream" THEN Returned("STREAM", "object", src.text)
    ELSE IF src.strOk THEN Returned("JSON_STR", "str", src.text)
    ELSE Raised("RuntimeError: str(source)")

\* what classify_source returns or raises when _is_path takes the safe policy
NoProbeResult(src, fl) ==
    LET early == Rules1to4(src, fl)
    IN  IF early # Pending THEN early
        ELSE IF src.shape \notin {"str", "path"} THEN Rules6to8(src)
        ELSE IF SafeIsPath(PosixStr(src.text)) THEN PathFound(src)
        ELSE Rules6to8(src)

\* the call up to the first filesystem operation, or to its end
ClassifySource ==
    /\ cpc = "call"
    /\ LET early == Rules1to4(source, flags)
       IN  IF early # Pending
               THEN cpc' = "done" /\ cresult' = early
           ELSE IF source.shape \notin {"str", "path"}
               THEN cpc' = "done" /\ cresult' = Rules6to8(source)
           ELSE IF Probes(flags)
               THEN cpc' = "touch" /\ cresult' = cresult
           ELSE IF SafeIsPath(PosixStr(source.text))
               THEN cpc' = "done" /\ cresult' = PathFound(source)
           ELSE cpc' = "done" /\ cresult' = Rules6to8(source)
    /\ UNCHANGED <<source, flags, fs, fs0, fsops>>
    /\ UNCHANGED <<rvars, rdvars, lvars, pvars>>

\* ProbeTouch with the failure of path.touch() raised to the caller
ProbeTouch_Propagating ==
    /\ cpc = "touch"
    /\ fsops' = Append(fsops, "touch")
    /\ \E ok \in BOOLEAN :
          IF ok
          THEN /\ fs' = (IF fs = "absent" THEN "file" ELSE fs)
               /\ cpc' = "unlink"
               /\ cresult' = cresult
          ELSE /\ fs' = fs
               /\ cpc' = "done"
               /\ cresult' = Raised("PermissionError")
    /\ UNCHANGED <<source, flags, fs0>>
    /\ UNCHANGED <<rvars, rdvars, lvars, pvars>>

\* path.touch(): utime on an existing entry, create otherwise; either may fail
ProbeTouch ==
    /\ cpc = "touch"
    /\ fsops' = Append(fsops, "touch")
    /\ \E ok \in BOOLEAN :
          IF ok
          THEN /\ fs' = (IF fs = "absent" THEN "file" ELSE fs)
               /\ cpc' = "unlink"
               /\ cresult' = cresult
          ELSE /\ fs' = fs
               /\ cpc' = "done"
               /\ cresult' = Rules6to8(source)
    /\ UNCHANGED <<source, flags, fs0>>
    /\ UNCHANGED <<rvars, rdvars, lvars, pvars>>

\* ProbeUnlink with path.unlink() left out: the file stays
ProbeUnlink_KeepsFile ==
    /\ cpc = "unlink"
    /\ fsops' = Append(fsops, "unlink")
    /\ \E ok \in BOOLEAN :
          IF ok /\ fs = "file"
          THEN /\ fs' = fs
               /\ cresult' = PathFound(source)
          ELSE /\ fs' = fs
               /\ cresult' = Rules6to8(source)
    /\ cpc' = "done"
    /\ UNCHANGED <<source, flags, fs0>>
    /\ UNCHANGED <<rvars, rdvars, lvars, pvars>>

\* path.unlink(): removes a file, fails on a directory, may fail otherwise
ProbeUnlink ==
    /\ cpc = "unlink"
    /\ fsops' = Append(fsops, "unlink")
    /\ \E ok \in BOOLEAN :
          IF ok /\ fs = "file"
          THEN /\ fs' = "absent"
               /\ cresult' = PathFound(source)
          ELSE /\ fs' = fs
               /\ cresult' = Rules6to8(source)
    /\ cpc' = "done"
    /\ UNCHANGED <<source, flags, fs0>>
    /\ UNCHANGED <<rvars, rdvars, lvars, pvars>>

----------------------------------------------------------------------------
(* classify_source called by two callers at once, on the same path; fsops is
   then the record of what both did to the path, in the order it happened *)

\* one caller's call up to its first filesystem operation, or to its end
ProberClassify(t) ==
    /\ ppc[t] = "call"
    /\ LET early == Rules1to4(source, flags)
       IN  IF early # Pending
               THEN ppc' = [ppc EXCEPT ![t] = "done"] /\ presult' = [presult EXCEPT ![t] = early]
           ELSE IF source.shape \notin {"str", "path"}
               THEN /\ ppc' = [ppc EXCEPT ![t] = "done"]
                    /\ presult' = [presult EXCEPT ![t] = Rules6to8(source)]
           ELSE IF Probes(flags)
               THEN ppc' = [ppc EXCEPT ![t] = "touch"] /\ presult' = presult
           ELSE /\ ppc' = [ppc EXCEPT ![t] = "done"]
                /\ presult' = [presult EXCEPT ![t] = NoProbeResult(source, flags)]
    /\ UNCHANGED <<source, flags, fs, fs0, cpc, cresult, fsops>>
    /\ UNCHANGED <<rvars, rdvars, lvars>>

\* one caller's path.touch()
ProberTouch(t) ==
    /\ ppc[t] = "touch"
    /\ \E ok \in BOOLEAN :
          IF ok
          THEN /\ fs' = (IF fs = "absent" THEN "file" ELSE fs)
               /\ fsops' = Append(fsops, "touch")
               /\ ppc' = [ppc EXCEPT ![t] = "unlink"]
               /\ presult' = presult
          ELSE /\ fs' = fs
               /\ fsops' = Append(fsops, "touch failed")
               /\ ppc' = [ppc EXCEPT ![t] = "done"]
               /\ presult' = [presult EXCEPT ![t] = Rules6to8(source)]
    /\ UNCHANGED <<source, flags, fs0, cpc, cresult>>
    /\ UNCHANGED <<rvars, rdvars, lvars>>

\* ProberUnlink with path.unlink() left out: the file stays
ProberUnlink_KeepsFile(t) ==
    /\ ppc[t] = "unlink"
    /\ fs' = fs
    /\ fsops' = Append(fsops, "unlink")
    /\ ppc' = [ppc EXCEPT ![t] = "done"]
    /\ presult' = [presult EXCEPT ![t] = PathFound(source)]
    /\ UNCHANGED <<source, flags, fs0, cpc, cresult>>
    /\ UNCHANGED <<rvars, rdvars, lvars>>

\* one caller's path.unlink(): FileNotFoundError when the other caller has
\* removed the file already, and it may fail with the file there
ProberUnlink(t) ==
    /\ ppc[t] = "unlink"
    /\ \E ok \in BOOLEAN :
          IF fs = "absent"
          THEN /\ ok
               /\ fs' = fs
               /\ fsops' = Append(fsops, "unlink missing")
               /\ presult' = [presult EXCEPT ![t] = Rules6to8(source)]
          ELSE IF ok /\ fs = "file"
          THEN /\ fs' = "absent"
               /\ fsops' = Append(fsops, "unlink")
               /\ presult' = [presult EXCEPT ![t] = PathFound(source)]
          ELSE /\ fs' = fs
               /\ fsops' = Append(fsops, "unlink refused")
               /\ presult' = [presult EXCEPT ![t] = Rules6to8(source)]
    /\ ppc' = [ppc EXCEPT ![t] = "done"]
    /\ UNCHANGED <<source, flags, fs0, cpc, cresult>>
    /\ UNCHANGED <<rvars, rdvars, lvars>>

----------------------------------------------------------------------------
(* BackendResolver and load_backend *)

\* the values of enum Backend
Backend == {"json", "orjson", "ujson", "ijson", "rapidjson", "simplejson", "custom"}

\* the keys of _BACKEND_CLASSES, each with its class name
BACKEND_CLASSES ==
    [b \in {"json", "orjson", "ujson", "rapidjson", "simplejson"} |->
        CASE b = "json" -> "JsonBackend"
          [] b = "orjson" -> "OrjsonBackend"
          [] b = "ujson" -> "UjsonBackend"
          [] b = "rapidjson" -> "RapidjsonBackend"
          [] b = "simplejson" -> "SimplejsonBackend"]

\* the keys of InstallerFactory._INSTALLERS
INSTALLERS == {"orjson", "ujson", "rapidjson", "simplejson"}

\* backend_name arguments: the enum values, an unknown name, a non-string, None
BackendNames == Backend \cup {"bogus", "<int>", "None"}

\* backend_class arguments: None, two classes, a value that is not a class
BackendClasses == {"None", "JsonBackend", "MyCodec", "<not a class>"}

Configs ==
    [backend_name : BackendNames, backend_class : BackendClasses,
     safe_mode : BOOLEAN, runtime_install : BOOLEAN]

\* ReaderConfig.resolver_flags
resolver_flags(cfg) ==
    (IF cfg.safe_mode THEN {"SAFE"} ELSE {})
    \cup (IF cfg.runtime_install THEN {"RUNTIME_INSTALL"} ELSE {})

\* the ReaderConfig values whose classification flags are looked at: every
\* combination of safe_mode, fs_probe and the two forced kinds
ClassificationConfigs ==
    [backend_name : {"json"}, backend_class : {"None"},
     safe_mode : BOOLEAN, runtime_install : {FALSE},
     fs_probe : BOOLEAN, force_is_json : BOOLEAN, force_is_path : BOOLEAN]

\* ReaderConfig.classification_flags
classification_flags(cfg) ==
    (IF cfg.force_is_json THEN {"IS_JSON"} ELSE {})
    \cup (IF cfg.force_is_path THEN {"IS_PATH"} ELSE {})
    \cup (IF cfg.fs_probe THEN {"FS_PROBE"} ELSE {})

\* json_backend is imported by _resolver itself, hence always importable; the
\* modules of the other registered backends import a third-party package
Environments == {{"json"} \cup S : S \in SUBSET (DOMAIN BACKEND_CLASSES \ {"json"})}

Resolved(cls, name) == [status |-> "return", cls |-> cls, name |-> name, err |-> "-"]

ResolveRaised(err) == [status |-> "raise", cls |-> "-", name |-> "-", err |-> err]

ResolvePending == [status |-> "pending", cls |-> "-", name |-> "-", err |-> "-"]

\* str.lower() of a class's __name__
LowerName(cls) ==
    CASE cls = "JsonBackend" -> "jsonbackend"
      [] cls = "MyCodec" -> "mycodec"
      [] OTHER -> "unknown"

\* OnImportError without the safe_mode test
OnImportError_AlwaysFallback(cfg, err) == Resolved("JsonBackend", "json")

\* resolve_backend's `except ImportError` branch
OnImportError(cfg, err) ==
    IF cfg.safe_mode THEN ResolveRaised(err) ELSE Resolved("JsonBackend", "json")

\* ValidateConfig without the test that one of the two is given
ValidateConfig_NoEmptinessTest(cfg) ==
    IF cfg.backend_class # "None" THEN
        IF cfg.backend_class = "<not a class>" THEN ResolveRaised("TypeError: issubclass() arg 1 must be a class")
        ELSE Resolved(cfg.backend_class,
                      IF cfg.backend_name # "None" THEN cfg.backend_name
                      ELSE LowerName(cfg.backend_class))
    ELSE IF cfg.backend_name \in {"<int>", "None"} THEN ResolveRaised("TypeError: backend_name must be a str")
    ELSE IF cfg.backend_name \notin Backend THEN ResolveRaised("ValueError: Invalid backend")
    ELSE ResolvePending

\* ValidateConfig with a given backend_name taking precedence over the class
ValidateConfig_NameFirst(cfg) ==
    IF cfg.backend_name = "None" /\ cfg.backend_class = "None"
        THEN ResolveRaised("ValueError: Either 'backend_name' or 'backend_class' must be provided")
    ELSE IF cfg.backend_name = "None" THEN
        IF cfg.backend_class = "<not a class>" THEN ResolveRaised("TypeError: issubclass() arg 1 must be a class")
        ELSE Resolved(cfg.backend_class, LowerName(cfg.backend_class))
    ELSE IF cfg.backend_name = "<int>" THEN ResolveRaised("TypeError: backend_name must be a str")
    ELSE IF cfg.backend_name \notin Backend THEN ResolveRaised("ValueError: Invalid backend")
    ELSE ResolvePending

\* resolve_backend before load_backend is called; ResolvePending: go on to load
ValidateConfig(cfg) ==
    IF cfg.backend_name = "None" /\ cfg.backend_class = "None"
        THEN ResolveRaised("ValueError: Either 'backend_name' or 'backend_class' must be provided")
    ELSE IF cfg.backend_class # "None" THEN
        IF cfg.backend_class = "<not a class>" THEN ResolveRaised("TypeError: issubclass() arg 1 must be a class")
        ELSE Resolved(cfg.backend_class,
                      IF cfg.backend_name # "None" THEN cfg.backend_name
                      ELSE LowerName(cfg.backend_class))
    ELSE IF cfg.backend_name = "<int>" THEN ResolveRaised("TypeError: backend_name must be a str")
    ELSE IF cfg.backend_name \notin Backend THEN ResolveRaised("ValueError: Invalid backend")
    ELSE ResolvePending

\* ResolveBackend going on to the install whether or not RUNTIME_INSTALL is set
ResolveBackend_InstallAlways ==
    /\ rpc = "call"
    /\ LET v == ValidateConfig(config)
           b == config.backend_name
       IN  IF v # ResolvePending
               THEN rpc' = "done" /\ rresult' = v /\ imports' = imports /\ loaded' = loaded
           ELSE IF b \notin DOMAIN BACKEND_CLASSES
               THEN /\ rpc' = "done"
                    /\ rresult' = ResolveRaised("ValueError: Unsupported backend")
                    /\ imports' = imports
                    /\ loaded' = "ValueError: Unsupported backend"
           ELSE IF b \in importable
               THEN /\ rpc' = "done"
                    /\ rresult' = Resolved(BACKEND_CLASSES[b], b)
                    /\ imports' = imports + 1
                    /\ loaded' = "instance"
           ELSE /\ rpc' = "install" /\ rresult' = rresult /\ imports' = imports + 1
                /\ loaded' = loaded
    /\ UNCHANGED <<config, importable, installs, tpc, tresult, tinstalls>>
    /\ UNCHANGED <<cvars, rdvars, lvars, pvars>>

\* the call up to the end of load_backend's first import attempt
ResolveBackend ==
    /\ rpc = "call"
    /\ LET v == ValidateConfig(config)
           b == config.backend_name
       IN  IF v # ResolvePending
               THEN rpc' = "done" /\ rresult' = v /\ imports' = imports /\ loaded' = loaded
           ELSE IF b \notin DOMAIN BACKEND_CLASSES
               THEN /\ rpc' = "done"
                    /\ rresult' = ResolveRaised("ValueError: Unsupported backend")
                    /\ imports' = imports
                    /\ loaded' = "ValueError: Unsupported backend"
           ELSE IF b \in importable
               THEN /\ rpc' = "done"
                    /\ rresult' = Resolved(BACKEND_CLASSES[b], b)
                    /\ imports' = imports + 1
                    /\ loaded' = "instance"
           ELSE IF "RUNTIME_INSTALL" \in resolver_flags(config)
               THEN /\ rpc' = "install" /\ rresult' = rresult /\ imports' = imports + 1
                    /\ loaded' = loaded
           ELSE /\ rpc' = "done"
                /\ rresult' = OnImportError(config, "ImportError: not available")
                /\ imports' = imports + 1
                /\ loaded' = "ImportError: not available"
    /\ UNCHANGED <<config, importable, installs, tpc, tresult, tinstalls>>
    /\ UNCHANGED <<cvars, rdvars, lvars, pvars>>

\* InstallerFactory.get_installer(backend) and installer.install(); the
\* install may fail, or succeed with the module importable or still not
Install ==
    /\ rpc = "install"
    /\ IF config.backend_name \notin INSTALLERS
       THEN /\ rpc' = "done"
            /\ rresult' = OnImportError(config, "ImportError: not installed")
            /\ loaded' = "ImportError: not installed"
            /\ UNCHANGED <<installs, importable>>
       ELSE /\ installs' = installs + 1
            /\ \E outcome \in {"failed", "installed", "no module"} :
                  CASE outcome = "failed" ->
                         /\ rpc' = "done"
                         /\ rresult' = OnImportError(config, "ImportError: not installed")
                         /\ loaded' = "ImportError: not installed"
                         /\ importable' = importable
                    [] outcome = "installed" ->
                         /\ rpc' = "retry"
                         /\ rresult' = rresult
                         /\ loaded' = loaded
                         /\ importable' = importable \cup {config.backend_name}
                    [] outcome = "no module" ->
                         /\ rpc' = "retry"
                         /\ rresult' = rresult
                         /\ loaded' = loaded
                         /\ importable' = importable
    /\ UNCHANGED <<config, imports, tpc, tresult, tinstalls>>
    /\ UNCHANGED <<cvars, rdvars, lvars, pvars>>

\* load_backend's second import attempt, after the install
RetryImport ==
    /\ rpc = "retry"
    /\ imports' = imports + 1
    /\ rpc' = "done"
    /\ rresult' = IF config.backend_name \in importable
                  THEN Resolved(BACKEND_CLASSES[config.backend_name], config.backend_name)
                  ELSE OnImportError(config, "ImportError: not installed")
    /\ loaded' = IF config.backend_name \in importable THEN "instance"
                 ELSE "ImportError: not installed"
    /\ UNCHANGED <<config, importable, installs, tpc, tresult, tinstalls>>
    /\ UNCHANGED <<cvars, rdvars, lvars, pvars>>

----------------------------------------------------------------------------
(* resolve_backend called by two callers at once, on one environment *)

Callers == {"caller1", "caller2"}

\* one caller's call up to the end of load_backend's first import attempt
CallerResolveBackend(t) ==
    /\ tpc[t] = "call"
    /\ LET v == ValidateConfig(config)
           b == config.backend_name
       IN  IF v # ResolvePending
               THEN tpc' = [tpc EXCEPT ![t] = "done"] /\ tresult' = [tresult EXCEPT ![t] = v]
           ELSE IF b \notin DOMAIN BACKEND_CLASSES
               THEN /\ tpc' = [tpc EXCEPT ![t] = "done"]
                    /\ tresult' = [tresult EXCEPT ![t] = ResolveRaised("ValueError: Unsupported backend")]
           ELSE IF b \in importable
               THEN /\ tpc' = [tpc EXCEPT ![t] = "done"]
                    /\ tresult' = [tresult EXCEPT ![t] = Resolved(BACKEND_CLASSES[b], b)]
           ELSE IF "RUNTIME_INSTALL" \in resolver_flags(config)
               THEN tpc' = [tpc EXCEPT ![t] = "install"] /\ tresult' = tresult
           ELSE /\ tpc' = [tpc EXCEPT ![t] = "done"]
                /\ tresult' = [tresult EXCEPT ![t] = OnImportError(config, "ImportError: not available")]
    /\ UNCHANGED <<config, importable, tinstalls, rpc, rresult, imports, installs, loaded>>
    /\ UNCHANGED <<cvars, rdvars, lvars, pvars>>

\* one caller's get_installer(backend) and installer.install()
CallerInstall(t) ==
    /\ tpc[t] = "install"
    /\ IF config.backend_name \notin INSTALLERS
       THEN /\ tpc' = [tpc EXCEPT ![t] = "done"]
            /\ tresult' = [tresult EXCEPT ![t] = OnImportError(config, "ImportError: not installed")]
            /\ UNCHANGED <<tinstalls, importable>>
       ELSE /\ tinstalls' = tinstalls + 1
            /\ \E outcome \in {"failed", "installed", "no module"} :
                  CASE outcome = "failed" ->
                         /\ tpc' = [tpc EXCEPT ![t] = "done"]
                         /\ tresult' = [tresult EXCEPT ![t] = OnImportError(config, "ImportError: not installed")]
                         /\ importable' = importable
                    [] outcome = "installed" ->
                         /\ tpc' = [tpc EXCEPT ![t] = "retry"]
                         /\ tresult' = tresult
                         /\ importable' = importable \cup {config.backend_name}
                    [] outcome = "no module" ->
                         /\ tpc' = [tpc EXCEPT ![t] = "retry"]
                         /\ tresult' = tresult
                         /\ importable' = importable
    /\ UNCHANGED <<config, rpc, rresult, imports, installs, loaded>>
    /\ UNCHANGED <<cvars, rdvars, lvars, pvars>>

\* one caller's second import attempt
CallerRetryImport(t) ==
    /\ tpc[t] = "retry"
    /\ tpc' = [tpc EXCEPT ![t] = "done"]
    /\ tresult' = [tresult EXCEPT ![t] =
                      IF config.backend_name \in importable
                      THEN Resolved(BACKEND_CLASSES[config.backend_name], config.backend_name)
                      ELSE OnImportError(config, "ImportError: not installed")]
    /\ UNCHANGED <<config, importable, tinstalls, rpc, rresult, imports, installs, loaded>>
    /\ UNCHANGED <<cvars, rdvars, lvars, pvars>>

----------------------------------------------------------------------------
(* JsonIOReader.read *)

\* the members of ReadFlags that read and _classify_source test
ReadFlags == {"IS_JSON", "IS_PATH"}

\* the reader's own flags that _is_path tests, and NETWORK_SOURCES
ReaderFlags == {"SAFE", "FS_PROBE", "NETWORK_SOURCES"}

\* decoder_cls arguments: JSONDecoder, a subclass of it, None, another class
DecoderClasses == {"JSONDecoder", "MyDecoder", "None", "dict"}

\* validate arguments: None, a validator that returns, one that raises
Validators == {"None", "accepts", "rejects"}

\* self._backend_name as left by __init__
ReaderBackendNames == {"jsonbackend", "json"}

ReadOpts ==
    [decoder_cls : DecoderClasses, validate : Validators,
     reader_flags : SUBSET ReaderFlags, backend_name : ReaderBackendNames]

ReadSources ==
    {Src("none", <<>>, TRUE),
     Src("str", <<"{", "}">>, TRUE),
     Src("str", <<"a">> \o DOTJSON, TRUE),
     Src("str", <<"{">> \o DOTJSON, TRUE),
     Src("str", HTTP \o <<"a">>, TRUE),
     Src("str", HTTPS \o <<"a">> \o DOTJSON, TRUE),
     Src("path", <<"a">>, TRUE),
     Src("bytes", <<"{", "}">>, TRUE),
     Src("stream", <<"{", "}">>, TRUE),
     Src("other", <<"a">>, TRUE),
     Src("other", <<"a">>, FALSE)}

\* the names of enum BackendLimit
BackendLimit == {"JSON", "ORJSON", "UJSON", "IJSON", "RAPIDJSON", "SIMPLEJSON", "CUSTOM"}

\* str.upper() of a backend name
UpperName(name) ==
    CASE name = "json" -> "JSON"
      [] name = "jsonbackend" -> "JSONBACKEND"
      [] name = "orjson" -> "ORJSON"
      [] name = "ujson" -> "UJSON"
      [] name = "ijson" -> "IJSON"
      [] name = "rapidjson" -> "RAPIDJSON"
      [] name = "simplejson" -> "SIMPLEJSON"
      [] name = "custom" -> "CUSTOM"
      [] name = "mycodec" -> "MYCODEC"
      [] name = "bogus" -> "BOGUS"
      [] OTHER -> "?"

ReadState(status, kind, text, err, cause) ==
    [status |-> status, kind |-> kind, text |-> text, err |-> err, cause |-> cause]

ReadPending == ReadState("pending", "-", <<>>, "-", "-")

ReadRaised(err) == ReadState("raise", "-", <<>>, err, "-")

\* JsonParsingError that does not keep the exception it was built from
JsonParsingError_NoCause(e) == ReadState("raise", "-", <<>>, "JsonParsingError", "-")

\* raise JsonParsingError(e) from e
JsonParsingError(e) == ReadState("raise", "-", <<>>, "JsonParsingError", e)

\* self._backend(): an instance of the class __init__ resolved; both names a
\* reader can have come from a reader built on the class JsonBackend
NewBackend(opts) == "JsonBackend()"

\* the `backend` property: builds the instance only when the attribute does
\* not exist; __init__ has set it to None, so it exists
backend ==
    IF backend_instance = "<unset>" THEN NewBackend(rdopts) ELSE backend_instance

\* a caller reads reader.backend
AccessBackend ==
    /\ rdpc # "idle"
    /\ Len(backend_got) < MaxAccess
    /\ backend_instance' = backend
    /\ backend_got' = Append(backend_got, backend)
    /\ UNCHANGED <<rdsource, rdflags, rdopts, rdpc, rdresult, rdlog>>
    /\ UNCHANGED <<cvars, rvars, lvars, pvars>>

\* isinstance(self.backend, PluggableJsonLoaderProtocol)
IsPluggable(b) == b \in {"JsonBackend()"}

\* ReadPrecheck with the decoder_cls test moved before the flag test
ReadPrecheck_DecoderFirst(src, fl, opts) ==
    IF src.shape = "none" THEN ReadRaised("ValueError: NoneType is not a valid source")
    ELSE IF opts.decoder_cls = "None" THEN ReadRaised("TypeError: issubclass() arg 1 must be a class")
    ELSE IF opts.decoder_cls \notin {"JSONDecoder", "MyDecoder"}
        THEN ReadRaised("TypeError: cls must be a JSONDecoder class")
    ELSE IF "IS_JSON" \in fl /\ "IS_PATH" \in fl
        THEN ReadRaised("ValueError: IS_JSON and IS_PATH cannot be used together")
    ELSE ReadPending

\* read before the try block; ReadPending: go on to classify
ReadPrecheck(src, fl, opts) ==
    IF src.shape = "none" THEN ReadRaised("ValueError: NoneType is not a valid source")
    ELSE IF "IS_JSON" \in fl /\ "IS_PATH" \in fl
        THEN ReadRaised("ValueError: IS_JSON and IS_PATH cannot be used together")
    ELSE IF opts.decoder_cls = "None" THEN ReadRaised("TypeError: issubclass() arg 1 must be a class")
    ELSE IF opts.decoder_cls \notin {"JSONDecoder", "MyDecoder"}
        THEN ReadRaised("TypeError: cls must be a JSONDecoder class")
    ELSE ReadPending

Read ==
    /\ rdpc = "call"
    /\ rdlog' = Append(rdlog, "precheck")
    /\ LET pre == ReadPrecheck(rdsource, rdflags, rdopts)
       IN  IF pre # ReadPending
           THEN rdpc' = "done" /\ rdresult' = pre
           ELSE rdpc' = "classify" /\ rdresult' = rdresult
    /\ UNCHANGED <<rdsource, rdflags, rdopts, backend_instance, backend_got>>
    /\ UNCHANGED <<cvars, rvars, lvars, pvars>>

\* the probe of _unsafe_is_path run to its end on filesystem state f
ProbeRun(f, touchOk, unlinkOk) ==
    IF ~touchOk THEN [fs |-> f, isPath |-> FALSE, ops |-> <<"touch">>]
    ELSE LET g == IF f = "absent" THEN "file" ELSE f
         IN  IF unlinkOk /\ g = "file"
             THEN [fs |-> "absent", isPath |-> TRUE, ops |-> <<"touch", "unlink">>]
             ELSE [fs |-> g, isPath |-> FALSE, ops |-> <<"touch", "unlink">>]

\* self._classify_source(source, flags) inside the try block
ReadClassify ==
    /\ rdpc = "classify"
    /\ \E touchOk \in BOOLEAN, unlinkOk \in BOOLEAN :
          LET early == Rules1to4(rdsource, rdflags)
              probing == /\ early = Pending
                         /\ rdsource.shape \in {"str", "path"}
                         /\ Probes(rdopts.reader_flags)
              run == ProbeRun(fs, touchOk, unlinkOk)
              c == IF early # Pending THEN early
                   ELSE IF rdsource.shape \notin {"str", "path"} THEN Rules6to8(rdsource)
                   ELSE IF probing THEN
                       (IF run.isPath THEN PathFound(rdsource) ELSE Rules6to8(rdsource))
                   ELSE IF SafeIsPath(PosixStr(rdsource.text)) THEN PathFound(rdsource)
                   ELSE Rules6to8(rdsource)
          IN  /\ (~probing => (touchOk /\ unlinkOk))
              /\ fs' = (IF probing THEN run.fs ELSE fs)
              /\ fsops' = (IF probing THEN fsops \o run.ops ELSE fsops)
              /\ rdlog' = Append(rdlog, "classify")
              /\ IF c.status = "raise"
                 THEN rdpc' = "done" /\ rdresult' = JsonParsingError(c.err)
                 ELSE rdpc' = "open" /\ rdresult' = ReadState("classified", c.kind, c.text, "-", "-")
    /\ UNCHANGED <<rdsource, rdflags, rdopts, backend_instance, backend_got>>
    /\ UNCHANGED <<source, flags, fs0, cpc, cresult>>
    /\ UNCHANGED <<rvars, lvars, pvars>>

\* self._open(norm, src_type, encoding): what it does and how it can fail
OpenOutcomes(kind, f, opts) ==
    CASE kind = "URL" ->
           {[log |-> <<"urlopen">>, err |-> "-"],
            [log |-> <<"urlopen">>, err |-> "URLError"],
            [log |-> <<"urlopen">>, err |-> "UnicodeDecodeError"]}
      [] kind = "PATH" ->
           IF f = "absent" THEN {[log |-> <<"exists">>, err |-> "FileNotFoundError"]}
           ELSE IF f = "dir" THEN {[log |-> <<"exists", "is_dir">>, err |-> "IsADirectoryError"]}
           ELSE IF UpperName(opts.backend_name) \notin BackendLimit
               THEN {[log |-> <<"exists", "is_dir", "stat">>, err |-> "KeyError"]}
           ELSE {[log |-> <<"exists", "is_dir", "stat", "open">>, err |-> "-"],
                 [log |-> <<"exists", "is_dir", "stat", "open">>, err |-> "PermissionError"]}
      [] kind = "BYTES" ->
           {[log |-> <<>>, err |-> "-"], [log |-> <<>>, err |-> "UnicodeDecodeError"]}
      [] kind = "JSON_STR" -> {[log |-> <<>>, err |-> "-"]}
      [] kind = "STREAM" ->
           {[log |-> <<"stream.read">>, err |-> "-"],
            [log |-> <<"stream.read">>, err |-> "OSError"]}

ReadOpen ==
    /\ rdpc = "open"
    /\ \E o \in OpenOutcomes(rdresult.kind, fs, rdopts) :
          /\ rdlog' = Append(rdlog, "open") \o o.log
          /\ IF o.err # "-"
             THEN rdpc' = "done" /\ rdresult' = JsonParsingError(o.err)
             ELSE rdpc' = "load" /\ rdresult' = [rdresult EXCEPT !.status = "opened"]
    /\ UNCHANGED <<rdsource, rdflags, rdopts, backend_instance, backend_got>>
    /\ UNCHANGED <<cvars, rvars, lvars, pvars>>

\* the body of the with block: decoder_cls is a class here, never None
ReadLoad ==
    /\ rdpc = "load"
    /\ rdpc' = "done"
    /\ backend_instance' = backend
    /\ IF ~IsPluggable(backend)
       THEN /\ rdlog' = Append(rdlog, "with")
            /\ rdresult' = JsonParsingError("TypeError: decoder_cls is not supported by this backend")
       ELSE \E loadOk \in BOOLEAN :
            IF ~loadOk
            THEN /\ rdlog' = rdlog \o <<"with", "load">>
                 /\ rdresult' = JsonParsingError("JSONDecodeError")
            ELSE IF rdopts.validate = "rejects"
            THEN /\ rdlog' = rdlog \o <<"with", "load", "validate">>
                 /\ rdresult' = JsonParsingError("ValidationError")
            ELSE /\ rdlog' = IF rdopts.validate = "None" THEN rdlog \o <<"with", "load">>
                             ELSE rdlog \o <<"with", "load", "validate">>
                 /\ rdresult' = ReadState("return", "-", <<>>, "-", "-")
    /\ UNCHANGED <<rdsource, rdflags, rdopts, backend_got>>
    /\ UNCHANGED <<cvars, rvars, lvars, pvars>>

----------------------------------------------------------------------------
(* Loader.open *)

\* the bytes payloads are made of: '{', '}' and a byte that is not UTF-8
Bytes == {"0x7B", "0x7D", "0xFF"}

\* the characters text payloads are made of
Chars == {"{", "}"}

Encodings == {"utf-8", "latin-1"}

RECURSIVE SeqsUpTo(_, _)
SeqsUpTo(S, n) ==
    IF n = 0 THEN {<<>>}
    ELSE LET prev == SeqsUpTo(S, n - 1)
         IN  prev \cup {Append(t, x) : t \in prev, x \in S}

\* one byte decoded on its own (all bytes here are single-byte sequences)
DecodeByte(b) ==
    CASE b = "0x7B" -> "{"
      [] b = "0x7D" -> "}"
      [] b = "0xFF" -> "U+00FF"

\* whether bytes.decode(enc) succeeds: 0xFF is no valid UTF-8
Decodable(bs, enc) == enc = "latin-1" \/ \A i \in 1..Len(bs) : bs[i] # "0xFF"

\* bytes.decode(enc) where it succeeds
Decode(bs, enc) == [i \in 1..Len(bs) |-> DecodeByte(bs[i])]

\* norm_source values: a text (URL, path or JSON), bytes, or a readable
\* stream with its content, what kind of data read() gives, and nothing else
Payload(data, binary) == [data |-> data, binary |-> binary]

OpenReturned(obj, text) == [status |-> "return", obj |-> obj, text |-> text, err |-> "-"]

OpenRaised(err) == [status |-> "raise", obj |-> "-", text |-> <<>>, err |-> err]

OpenPending == [status |-> "pending", obj |-> "-", text |-> <<>>, err |-> "-"]

Outcome(log, result, pos) == [log |-> log, result |-> result, pos |-> pos]

\* OpenPath with the size hint enforced as a limit
OpenPath_HardLimit(f, size, hint, openOk, pos) ==
    IF f = "absent" THEN Outcome(<<"exists">>, OpenRaised("FileNotFoundError"), pos)
    ELSE IF f = "dir" THEN Outcome(<<"exists", "is_dir">>, OpenRaised("IsADirectoryError"), pos)
    ELSE IF size > hint
        THEN Outcome(<<"exists", "is_dir", "stat">>, OpenRaised("ValueError: file too large"), pos)
    ELSE IF openOk THEN Outcome(<<"exists", "is_dir", "stat", "open">>, OpenReturned("file", <<>>), pos)
    ELSE Outcome(<<"exists", "is_dir", "stat", "open">>, OpenRaised("PermissionError"), pos)

\* the PATH branch; openOk: whether path.open("r") succeeds on the file
OpenPath(f, size, hint, openOk, pos) ==
    IF f = "absent" THEN Outcome(<<"exists">>, OpenRaised("FileNotFoundError"), pos)
    ELSE IF f = "dir" THEN Outcome(<<"exists", "is_dir">>, OpenRaised("IsADirectoryError"), pos)
    ELSE LET log == IF size > hint THEN <<"exists", "is_dir", "stat", "logger.info", "open">>
                    ELSE <<"exists", "is_dir", "stat", "open">>
         IN  IF openOk THEN Outcome(log, OpenReturned("file", <<>>), pos)
             ELSE Outcome(log, OpenRaised("PermissionError"), pos)

\* StreamRead reading one item at most
StreamRead_OneItem(content, pos) ==
    IF pos < Len(content) THEN [data |-> <<content[pos + 1]>>, pos |-> pos + 1]
    ELSE [data |-> <<>>, pos |-> pos]

\* stream.read(): everything from the position to the end
StreamRead(content, pos) ==
    [data |-> SubSeq(content, pos + 1, Len(content)), pos |-> Len(content)]

\* the STREAM branch; readOk: whether stream.read() returns
OpenStream(src, enc, readOk, pos) ==
    IF ~readOk THEN Outcome(<<"stream.read">>, OpenRaised("OSError"), pos)
    ELSE LET r == StreamRead(src.data, pos)
         IN  IF ~src.binary THEN Outcome(<<"stream.read">>, OpenReturned("StringIO", r.data), r.pos)
             ELSE IF Decodable(r.data, enc)
                 THEN Outcome(<<"stream.read", "decode">>, OpenReturned("StringIO", Decode(r.data, enc)), r.pos)
             ELSE Outcome(<<"stream.read", "decode">>, OpenRaised("UnicodeDecodeError"), r.pos)

\* the URL branch; fetchOk: whether urlopen returns, body: what the server sends
OpenUrl(fetchOk, body, enc, pos) ==
    IF ~fetchOk THEN Outcome(<<"urlopen">>, OpenRaised("URLError"), pos)
    ELSE IF Decodable(body, enc)
        THEN Outcome(<<"urlopen", "resp.read", "decode">>, OpenReturned("StringIO", Decode(body, enc)), pos)
    ELSE Outcome(<<"urlopen", "resp.read", "decode">>, OpenRaised("UnicodeDecodeError"), pos)

\* the BYTES branch
OpenBytes(src, enc, pos) ==
    IF Decodable(src.data, enc)
    THEN Outcome(<<"decode">>, OpenReturned("StringIO", Decode(src.data, enc)), pos)
    ELSE Outcome(<<"decode">>, OpenRaised("UnicodeDecodeError"), pos)

\* one call of Loader.open
LoaderOpen ==
    /\ opc = "call"
    /\ \E ok \in BOOLEAN, body \in SeqsUpTo(Bytes, 1) :
          LET o == CASE src_type = "URL" -> OpenUrl(ok, body, encoding, stream_pos)
                     [] src_type = "PATH" -> OpenPath(fs, st_size, backend_size_hint, ok, stream_pos)
                     [] src_type = "BYTES" -> OpenBytes(norm_source, encoding, stream_pos)
                     [] src_type = "JSON_STR" ->
                            Outcome(<<>>, OpenReturned("StringIO", norm_source.data), stream_pos)
                     [] src_type = "STREAM" -> OpenStream(norm_source, encoding, ok, stream_pos)
          IN  /\ olog' = o.log
              /\ oresult' = o.result
              /\ stream_pos' = o.pos
    /\ opc' = "done"
    /\ UNCHANGED <<norm_source, src_type, encoding, backend_size_hint, st_size, stream_pos0>>
    /\ UNCHANGED <<cvars, rvars, rdvars, pvars>>

----------------------------------------------------------------------------
(* Specifications *)

LoaderIdle ==
    /\ norm_source = Payload(<<>>, FALSE) /\ src_type = "JSON_STR" /\ encoding = "utf-8"
    /\ backend_size_hint = 0 /\ st_size = 0 /\ stream_pos = 0 /\ stream_pos0 = 0
    /\ opc = "idle" /\ oresult = OpenPending /\ olog = <<>>

ProbersIdle ==
    /\ ppc = [t \in Callers |-> "idle"]
    /\ presult = [t \in Callers |-> Pending]

ClassifyIdle ==
    /\ source = Src("none", <<>>, TRUE) /\ flags = {} /\ cpc = "idle" /\ cresult = Pending

ConcurrentIdle ==
    /\ tpc = [t \in Callers |-> "idle"]
    /\ tresult = [t \in Callers |-> ResolvePending]
    /\ tinstalls = 0

ResolveIdle ==
    /\ config = [backend_name |-> "None", backend_class |-> "None",
                 safe_mode |-> FALSE, runtime_install |-> FALSE]
    /\ importable = {} /\ rpc = "idle" /\ rresult = ResolvePending
    /\ imports = 0 /\ installs = 0 /\ loaded = "not called"
    /\ ConcurrentIdle

ReadIdle ==
    /\ rdsource = Src("none", <<>>, TRUE) /\ rdflags = {}
    /\ rdopts = [decoder_cls |-> "JSONDecoder", validate |-> "None",
                 reader_flags |-> {}, backend_name |-> "jsonbackend"]
    /\ rdpc = "idle" /\ rdresult = ReadPending /\ rdlog = <<>>
    /\ backend_instance = "None" /\ backend_got = <<>>

\* one call of SourceClassifier.classify_source
ClassifyInit ==
    /\ source \in Sources
    /\ flags \in SUBSET ClassifyFlags
    /\ fs \in FsStates /\ fs0 = fs
    /\ cpc = "call" /\ cresult = Pending /\ fsops = <<>>
    /\ ResolveIdle /\ ReadIdle /\ LoaderIdle /\ ProbersIdle

ClassifyNext == ClassifySource \/ ProbeTouch \/ ProbeUnlink

ClassifySpec == ClassifyInit /\ [][ClassifyNext]_vars

\* one call of classify_source with the classification flags of a ReaderConfig
ConfiguredClassifyInit ==
    /\ config \in ClassificationConfigs
    /\ source \in ReadSources
    /\ flags = classification_flags(config)
    /\ fs \in FsStates /\ fs0 = fs
    /\ cpc = "call" /\ cresult = Pending /\ fsops = <<>>
    /\ importable = {} /\ rpc = "idle" /\ rresult = ResolvePending
    /\ imports = 0 /\ installs = 0 /\ loaded = "not called"
    /\ ConcurrentIdle /\ ReadIdle /\ LoaderIdle /\ ProbersIdle

ConfiguredClassifySpec == ConfiguredClassifyInit /\ [][ClassifyNext]_vars

\* two callers classifying the same source with the same flags
ProbersInit ==
    /\ source \in {x \in Sources : x.shape \in {"str", "path"} /\ Len(x.text) <= 1}
                 \cup ReadSources
    /\ flags \in {{"FS_PROBE"}, {"FS_PROBE", "SAFE"}, {}}
    /\ fs \in FsStates /\ fs0 = fs
    /\ ppc = [t \in Callers |-> "call"]
    /\ presult = [t \in Callers |-> Pending]
    /\ cpc = "idle" /\ cresult = Pending /\ fsops = <<>>
    /\ ResolveIdle /\ ReadIdle /\ LoaderIdle

ProbersNext ==
    \E t \in Callers : ProberClassify(t) \/ ProberTouch(t) \/ ProberUnlink(t)

ProbersSpec == ProbersInit /\ [][ProbersNext]_vars

\* one call of BackendResolver.resolve_backend
ResolveInit ==
    /\ config \in Configs
    /\ importable \in Environments
    /\ rpc = "call" /\ rresult = ResolvePending /\ imports = 0 /\ installs = 0 /\ loaded = "not called"
    /\ ConcurrentIdle
    /\ ClassifyIdle /\ fs = "absent" /\ fs0 = "absent" /\ fsops = <<>> /\ ReadIdle
    /\ LoaderIdle /\ ProbersIdle

ResolveNext == ResolveBackend \/ Install \/ RetryImport

ResolveSpec == ResolveInit /\ [][ResolveNext]_vars

\* two callers resolving the same ReaderConfig against one environment
ConcurrentInit ==
    /\ config \in Configs
    /\ importable \in Environments
    /\ tpc = [t \in Callers |-> "call"]
    /\ tresult = [t \in Callers |-> ResolvePending]
    /\ tinstalls = 0
    /\ rpc = "idle" /\ rresult = ResolvePending /\ imports = 0 /\ installs = 0 /\ loaded = "not called"
    /\ ClassifyIdle /\ fs = "absent" /\ fs0 = "absent" /\ fsops = <<>> /\ ReadIdle
    /\ LoaderIdle /\ ProbersIdle

ConcurrentNext ==
    \E t \in Callers : CallerResolveBackend(t) \/ CallerInstall(t) \/ CallerRetryImport(t)

ConcurrentSpec == ConcurrentInit /\ [][ConcurrentNext]_vars

\* one call of JsonIOReader.read
ReadInit ==
    /\ rdsource \in ReadSources
    /\ rdflags \in SUBSET ReadFlags
    /\ rdopts \in ReadOpts
    /\ fs \in FsStates /\ fs0 = fs
    /\ rdpc = "call" /\ rdresult = ReadPending /\ rdlog = <<>> /\ fsops = <<>>
    /\ backend_instance = "None" /\ backend_got = <<>>
    /\ ClassifyIdle /\ ResolveIdle /\ LoaderIdle /\ ProbersIdle

\* one call of Loader.open; the arguments fit the source type
LoaderInit ==
    /\ src_type \in SourceType
    /\ encoding \in Encodings
    /\ norm_source \in
          CASE src_type = "URL" -> {Payload(HTTP \o <<"a">>, FALSE)}
            [] src_type = "PATH" -> {Payload(<<"a">> \o DOTJSON, FALSE)}
            [] src_type = "BYTES" -> {Payload(d, TRUE) : d \in SeqsUpTo(Bytes, MaxData)}
            [] src_type = "JSON_STR" -> {Payload(d, FALSE) : d \in SeqsUpTo(Chars, MaxData)}
            [] src_type = "STREAM" ->
                   {Payload(d, TRUE) : d \in SeqsUpTo(Bytes, MaxData)}
                   \cup {Payload(d, FALSE) : d \in SeqsUpTo(Chars, MaxData)}
    /\ stream_pos \in (IF src_type = "STREAM" THEN 0..Len(norm_source.data) ELSE {0})
    /\ stream_pos0 = stream_pos
    /\ fs \in (IF src_type = "PATH" THEN FsStates ELSE {"absent"})
    /\ fs0 = fs
    /\ st_size \in (IF src_type = "PATH" /\ fs = "file" THEN 0..MaxSize ELSE {0})
    /\ backend_size_hint \in 0..MaxSize
    /\ opc = "call" /\ oresult = OpenPending /\ olog = <<>>
    /\ source = Src("none", <<>>, TRUE) /\ flags = {} /\ cpc = "idle" /\ cresult = Pending
    /\ fsops = <<>>
    /\ ResolveIdle /\ ReadIdle /\ ProbersIdle

LoaderNext == LoaderOpen

LoaderSpec == LoaderInit /\ [][LoaderNext]_vars

ReadNext == Read \/ ReadClassify \/ ReadOpen \/ ReadLoad \/ AccessBackend

ReadSpec == ReadInit /\ [][ReadNext]_vars

Init == ClassifyInit

Next == ClassifyNext

Spec == ClassifySpec

----------------------------------------------------------------------------
(* Properties of classify_source, checked under ClassifySpec *)

\* '{', '[' and the two quote characters
StructuralChars == {"{", "[", "\"", "'"}

HasStructural(t) == \E i \in 1..Len(t) : t[i] \in StructuralChars

IsUrlText(t) == StartsWith(t, HTTP) \/ StartsWith(t, HTTPS)

\* no forced kind, and the flags select the safe path policy
SafePolicyFlags(fl) ==
    /\ "IS_JSON" \notin fl /\ "IS_PATH" \notin fl
    /\ ("SAFE" \in fl \/ "FS_PROBE" \notin fl)

\* the path heuristic said yes: the safe policy accepted, or the probe both
\* created and removed the file
HeuristicAccepted ==
    IF "SAFE" \notin flags /\ "FS_PROBE" \in flags
    THEN fsops = <<"touch", "unlink">> /\ fs = "absent"
    ELSE SafeIsPath(PosixStr(source.text))

\* the kind the decision order of the classifier assigns, rule by rule
KindByOrder ==
    IF source.shape = "none" THEN "error"
    ELSE IF "IS_JSON" \in flags THEN (IF source.shape = "str" THEN "JSON_STR" ELSE "error")
    ELSE IF "IS_PATH" \in flags THEN "PATH"
    ELSE IF source.shape = "str" /\ IsUrlText(source.text) THEN "URL"
    ELSE IF source.shape \in {"str", "path"} /\ HeuristicAccepted THEN "PATH"
    ELSE IF source.shape = "bytes" THEN "BYTES"
    ELSE IF source.shape = "stream" THEN "STREAM"
    ELSE IF source.strOk THEN "JSON_STR"
    ELSE "error"

\* the rule that decides is one of rules 1 to 4: the heuristic is not consulted
DecidedEarly ==
    \/ source.shape = "none"
    \/ "IS_JSON" \in flags
    \/ "IS_PATH" \in flags
    \/ source.shape = "str" /\ IsUrlText(source.text)

\* C1: for every source shape and flag combination the call returns the kind
\* of the first matching rule of the fixed order (raising where that rule is
\* an error), and a source decided by rules 1 to 4 is never probed.
C1_FirstMatchWins ==
    cpc = "done" =>
        /\ IF KindByOrder = "error" THEN cresult.status = "raise"
           ELSE cresult.status = "return" /\ cresult.kind = KindByOrder
        /\ DecidedEarly => fsops = <<>>

\* The order of C1 on the inputs where the IS_PATH rule is not applied to a
\* source that Path() rejects.
C1_OrderElsewhere ==
    (cpc = "done" /\ ~("IS_PATH" \in flags /\ "IS_JSON" \notin flags
                       /\ source.shape \in {"bytes", "stream", "other"})) =>
        /\ IF KindByOrder = "error" THEN cresult.status = "raise"
           ELSE cresult.status = "return" /\ cresult.kind = KindByOrder
        /\ DecidedEarly => fsops = <<>>

\* C2: classifying an absent source raises the invalid-source error under
\* every flag combination, and nothing else (forced kind, probe) happens first.
C2_NoneAlwaysInvalid ==
    (cpc = "done" /\ source.shape = "none") =>
        /\ cresult = Raised("ValueError: Cannot read from None")
        /\ fsops = <<>>

C2_Witness ==
    /\ cpc = "done" /\ source.shape = "none"
    /\ flags = {"IS_JSON", "IS_PATH", "FS_PROBE"}
    /\ cresult.status = "raise"

\* C7: the call raises only for an absent source, for IS_JSON with a
\* non-text source, or when the fallback's str() fails; with IS_PATH set
\* (and IS_JSON unset) every non-absent source yields PATH with no filesystem
\* operation.
C7_RaisesOnlyThree ==
    cpc = "done" =>
        /\ cresult.status = "raise" =>
              \/ source.shape = "none"
              \/ "IS_JSON" \in flags /\ source.shape # "str"
              \/ /\ source.shape = "other" /\ ~source.strOk
                 /\ "IS_JSON" \notin flags /\ "IS_PATH" \notin flags
        /\ ("IS_PATH" \in flags /\ "IS_JSON" \notin flags /\ source.shape # "none") =>
              cresult.status = "return" /\ cresult.kind = "PATH" /\ fsops = <<>>

\* C8 as written: every text ending in '.json' with no structural character
\* is PATH under the safe policy with SAFE set, FS_PROBE set or not.
C8_Original ==
    (/\ cpc = "done" /\ source.shape = "str"
     /\ EndsWith(source.text, DOTJSON) /\ ~HasStructural(source.text)
     /\ "SAFE" \in flags /\ SafePolicyFlags(flags)) =>
        cresult.status = "return" /\ cresult.kind = "PATH"

\* C8: every text that ends in '.json', has no structural character and does
\* not begin with http:// or https:// is PATH when SAFE is set and no kind is
\* forced, FS_PROBE set or not.
C8_SafeJsonSuffixIsPath ==
    (/\ cpc = "done" /\ source.shape = "str"
     /\ EndsWith(source.text, DOTJSON) /\ ~HasStructural(source.text)
     /\ ~IsUrlText(source.text)
     /\ "SAFE" \in flags /\ SafePolicyFlags(flags)) =>
        cresult.status = "return" /\ cresult.kind = "PATH"

C8_Witness ==
    /\ cpc = "done" /\ source = Src("str", <<" ">> \o DOTJSON, TRUE)
    /\ flags = {"SAFE", "FS_PROBE"}
    /\ cresult.kind = "PATH"

\* C9: a text (not a URL) that contains '{', '[' or a quote and does not end
\* in '.json' is, under the safe policy, never PATH but JSON_STR with the
\* source text as payload.
C9_StructuralIsJsonStr ==
    (/\ cpc = "done" /\ source.shape = "str"
     /\ HasStructural(source.text) /\ ~EndsWith(source.text, DOTJSON)
     /\ ~IsUrlText(source.text)
     /\ SafePolicyFlags(flags)) =>
        cresult = Returned("JSON_STR", "str", source.text)

\* C10: under SAFE a text (not a URL) containing '{' is JSON_STR with the
\* source text as payload, also when it ends in '.json'.
C10_SafeRejectsBraceJson ==
    (/\ cpc = "done" /\ source.shape = "str"
     /\ ContainsSub(source.text, <<"{">>)
     /\ ~IsUrlText(source.text)
     /\ "SAFE" \in flags /\ SafePolicyFlags(flags)) =>
        cresult = Returned("JSON_STR", "str", source.text)

\* the four flag settings of the fallback tests
FallbackSettings == {{}, {"SAFE"}, {"FS_PROBE"}, {"IS_JSON"}}

\* C11: a source that is neither text, path-like, bytes nor readable and
\* whose str() fails makes the call raise that str() failure, under each of
\* the flag settings NONE, SAFE, FS_PROBE and IS_JSON.
C11_CoercionFailurePropagates ==
    (/\ cpc = "done" /\ source.shape = "other" /\ ~source.strOk
     /\ flags \in FallbackSettings) =>
        cresult = Raised("RuntimeError: str(source)")

\* the call ran the probe (SAFE unset, FS_PROBE set, path heuristic reached)
Probed == cpc = "done" /\ "SAFE" \notin flags /\ "FS_PROBE" \in flags /\ fsops # <<>>

\* the create step failed, or the remove step did
ProbeStepFailed ==
    \/ fsops = <<"touch">>
    \/ fsops = <<"touch", "unlink">> /\ fs # "absent"

\* C12 as written: after probing a path that did not exist, no file exists
\* there when the call returns, whatever the create and remove steps did; when
\* both succeed the result is PATH.
C12_Original ==
    (Probed /\ fs0 = "absent") =>
        /\ fs = "absent"
        /\ (fsops = <<"touch", "unlink">> /\ fs = "absent") => cresult.kind = "PATH"

\* C12: after probing a path that did not exist, no file exists there when
\* the call returns if the create step failed or the remove step succeeded;
\* the result is PATH exactly when both steps succeeded; a file is left only
\* when the create step succeeded and the remove step failed, and the result
\* is then not PATH.
C12_ProbeResidue ==
    (Probed /\ fs0 = "absent") =>
        /\ fs \in {"absent", "file"}
        /\ fsops = <<"touch">> => fs = "absent"
        /\ cresult.kind = "PATH" <=> (fsops = <<"touch", "unlink">> /\ fs = "absent")

C12_Witness ==
    /\ Probed /\ fs0 = "absent" /\ fsops = <<"touch", "unlink">>
    /\ fs = "absent" /\ cresult.kind = "PATH"

\* C13: a failure of the probe's create or remove step is never raised; the
\* candidate is then not a path, and a text source is JSON_STR with the
\* source text as payload.
C13_ProbeFailureSwallowed ==
    Probed =>
        /\ cresult.status = "return"
        /\ ProbeStepFailed =>
              /\ cresult.kind # "PATH"
              /\ source.shape = "str" => cresult = Returned("JSON_STR", "str", source.text)

C13_Witness ==
    /\ Probed /\ source.shape = "str" /\ fsops = <<"touch">>
    /\ cresult = Returned("JSON_STR", "str", source.text)

----------------------------------------------------------------------------
(* Properties of JsonIOReader.read, checked under ReadSpec *)

BothForced == "IS_JSON" \in rdflags /\ "IS_PATH" \in rdflags

----------------------------------------------------------------------------
(* Properties of resolve_backend, checked under ResolveSpec *)

\* resolution by name of a Backend value whose module is not importable when
\* the call ends (so the first import failed, and so did any install or retry)
Unloadable ==
    /\ rpc = "done" /\ config.backend_class = "None"
    /\ config.backend_name \in Backend
    /\ config.backend_name \notin importable

\* C4: for every Backend name that cannot be loaded, with safe_mode and
\* runtime_install both false, resolve_backend returns (JsonBackend, 'json').
C4_FallbackForEveryName ==
    (Unloadable /\ ~config.safe_mode /\ ~config.runtime_install) =>
        rresult = Resolved("JsonBackend", "json")

C6_FailedInstallIsFatal ==
    (/\ Unloadable /\ config.runtime_install
     /\ config.backend_name \in DOMAIN BACKEND_CLASSES) =>
        /\ rresult = ResolveRaised("ImportError: not installed")
        /\ installs <= 1 /\ imports <= 2

InLog(step) == \E i \in 1..Len(rdlog) : rdlog[i] = step

\* the call got past the checks that precede the try block
PrechecksPassed ==
    /\ rdsource.shape # "none" /\ ~BothForced
    /\ rdopts.decoder_cls \in {"JSONDecoder", "MyDecoder"}

ClassificationFailures ==
    {"ValueError: IS_JSON flag is set but not a string", "TypeError: Path(source)",
     "RuntimeError: str(source)"}

OpeningFailures ==
    {"URLError", "UnicodeDecodeError", "FileNotFoundError", "IsADirectoryError",
     "KeyError", "PermissionError", "OSError"}

DecodingFailures ==
    {"TypeError: decoder_cls is not supported by this backend", "JSONDecodeError"}

C18_DecoderCheckedBeforeIO ==
    (/\ rdpc = "done" /\ PrechecksPassed
     /\ rdflags = {} /\ rdsource.shape \in {"str", "path", "bytes", "stream"}
     /\ rdopts.decoder_cls = "MyDecoder" /\ ~IsPluggable(backend)) =>
        /\ rdresult = ReadRaised("TypeError: decoder_cls is not supported by this backend")
        /\ rdlog = <<"precheck">>
        /\ fsops = <<>>

\* C19: the first read of `backend` gives an instance of the resolved class,
\* every later read gives that same instance, and none gives None.
C19_BackendBuiltOnceAndKept ==
    \A i \in 1..Len(backend_got) :
        /\ backend_got[i] = "JsonBackend()"
        /\ backend_got[i] = backend_got[1]

C15_ClassBypassesLoading ==
    (rpc = "done" /\ config.backend_class # "None") =>
        /\ imports = 0 /\ installs = 0
        /\ IF config.backend_class = "<not a class>"
           THEN rresult = ResolveRaised("TypeError: issubclass() arg 1 must be a class")
           ELSE rresult.status = "return" /\ rresult.cls = config.backend_class

C15_Witness ==
    /\ rpc = "done" /\ config.backend_class = "MyCodec" /\ config.backend_name = "orjson"
    /\ config.runtime_install /\ config.safe_mode /\ "orjson" \notin importable
    /\ rresult.cls = "MyCodec" /\ imports = 0

\* C20: when two callers resolve the same missing backend at once with
\* runtime install permitted, the installer runs at most once in total.
C20_InstallAtMostOnce ==
    (config.runtime_install /\ config.backend_class = "None") => tinstalls <= 1

----------------------------------------------------------------------------
(* Properties of Loader.open, checked under LoaderSpec *)

OpenedPath == opc = "done" /\ src_type = "PATH"

Logged(step) == \E i \in 1..Len(olog) : olog[i] = step

\* C21 as written: on a PATH source open raises not-found for a missing path
\* after the existence test alone, is-a-directory for a directory, and
\* otherwise always returns an open text stream.
C21_Original ==
    OpenedPath =>
        /\ (fs = "absent" => (oresult = OpenRaised("FileNotFoundError") /\ olog = <<"exists">>))
        /\ (fs = "dir" => oresult = OpenRaised("IsADirectoryError"))
        /\ (fs = "file" => oresult.status = "return")

\* C21: on a PATH source open raises not-found for a missing path after the
\* existence test alone, is-a-directory for a directory, and otherwise calls
\* path.open whatever the size: it returns the open file or raises the error
\* of that open; a size above the hint only adds a log notice.
C21_SizeHintAdvisory ==
    OpenedPath =>
        /\ (fs = "absent" => (oresult = OpenRaised("FileNotFoundError") /\ olog = <<"exists">>))
        /\ (fs = "dir" => oresult = OpenRaised("IsADirectoryError"))
        /\ (fs = "file" =>
              /\ olog[Len(olog)] = "open"
              /\ oresult \in {OpenReturned("file", <<>>), OpenRaised("PermissionError")}
              /\ (Logged("logger.info") <=> st_size > backend_size_hint))

C21_Witness ==
    /\ OpenedPath /\ fs = "file" /\ st_size > backend_size_hint
    /\ oresult = OpenReturned("file", <<>>)

\* what was unread in the caller's stream when open was called
Drained == SubSeq(norm_source.data, stream_pos0 + 1, Len(norm_source.data))

\* the number of times open called stream.read()
StreamReads == Cardinality({i \in 1..Len(olog) : olog[i] = "stream.read"})

\* C22: when open returns on a STREAM source it has read the caller's stream
\* once, nothing is left unread in it, and the returned text stream holds the
\* drained content: decoded with `encoding` if binary, as it is if text.
C22_StreamDrainedOnce ==
    (opc = "done" /\ src_type = "STREAM" /\ oresult.status = "return") =>
        /\ StreamReads = 1
        /\ stream_pos = Len(norm_source.data)
        /\ oresult.text = (IF norm_source.binary THEN Decode(Drained, encoding) ELSE Drained)

C22_Witness ==
    /\ opc = "done" /\ src_type = "STREAM" /\ oresult.status = "return"
    /\ norm_source.binary /\ Len(Drained) = MaxData
    /\ stream_pos = Len(norm_source.data)

----------------------------------------------------------------------------
(* Further properties of classify_source, checked under ClassifySpec *)

\* C23: with SAFE among the flags the call creates and removes nothing on the
\* filesystem, for every source and whether or not FS_PROBE is set.
C23_SafeNeverProbes ==
    "SAFE" \in flags => (fsops = <<>> /\ fs = fs0 /\ cpc \notin {"touch", "unlink"})

C23_Witness ==
    /\ cpc = "done" /\ flags = {"SAFE", "FS_PROBE"}
    /\ source.shape = "str" /\ ~IsUrlText(source.text)
    /\ cresult.status = "return" /\ cresult.kind = "PATH"
    /\ fs0 = "absent"

----------------------------------------------------------------------------
(* Further properties of load_backend, checked under ResolveSpec *)

\* C24: load_backend calls installer.install() at most once, and only with
\* RUNTIME_INSTALL set and after one failed import; without RUNTIME_INSTALL
\* a failed import ends in ImportError with no install and no second import.
C24_InstallOnlyWhenPermitted ==
    /\ [](installs <= 1)
    /\ []((/\ rpc = "done" /\ imports >= 1
           /\ "RUNTIME_INSTALL" \notin resolver_flags(config)
           /\ config.backend_name \notin importable) =>
              (loaded = "ImportError: not available" /\ installs = 0 /\ imports = 1))
    /\ [][installs' # installs =>
              /\ "RUNTIME_INSTALL" \in resolver_flags(config)
              /\ imports = 1
              /\ config.backend_name \notin importable]_vars

C24_Witness ==
    /\ rpc = "done" /\ installs = 1 /\ imports = 2
    /\ "RUNTIME_INSTALL" \in resolver_flags(config)
    /\ loaded = "instance"

----------------------------------------------------------------------------
(* Further properties of classify_source, checked under ClassifySpec *)

\* C25: with FS_PROBE unset the call gives, for every source, the kind and
\* payload it gives with SAFE set and with SAFE unset, and touches no file.
C25_UnsetProbeIsSafePolicy ==
    (cpc = "done" /\ "FS_PROBE" \notin flags) =>
        /\ cresult = NoProbeResult(source, flags \cup {"SAFE"})
        /\ cresult = NoProbeResult(source, flags \ {"SAFE"})
        /\ fsops = <<>>

C25_Witness ==
    /\ cpc = "done" /\ flags = {}
    /\ source.shape = "str" /\ ~IsUrlText(source.text) /\ ~EndsWith(source.text, DOTJSON)
    /\ cresult.status = "return" /\ cresult.kind = "PATH"

\* C27: with SAFE unset and FS_PROBE set, a file that exists at the path a
\* text or path-like source names (here a name ending in '.json') is still
\* there when the call has finished.
C27_ExistingFileKept ==
    (/\ cpc = "done" /\ "SAFE" \notin flags /\ "FS_PROBE" \in flags
     /\ source.shape \in {"str", "path"} /\ EndsWith(source.text, DOTJSON)
     /\ fs0 = "file") => fs = "file"

----------------------------------------------------------------------------
(* Further properties of resolve_backend, checked under ResolveSpec *)

\* C29: the name a successful resolution returns is, upper-cased, a name of
\* BackendLimit, whether the backend was given by name or by class, with a
\* name of enum Backend or without a name.
C29_ResolvedNameHasLimit ==
    (/\ rpc = "done" /\ rresult.status = "return"
     /\ config.backend_name \in Backend \cup {"None"}) =>
        UpperName(rresult.name) \in BackendLimit

----------------------------------------------------------------------------
(* classify_source driven by a ReaderConfig, checked under ConfiguredClassifySpec *)

\* C28: when the config has safe_mode set, classification with its
\* classification_flags creates and removes nothing, fs_probe set or not, and
\* decides text and path-like sources by the safe policy.
C28_SafeModeNeverProbes ==
    (config.safe_mode /\ cpc = "done") =>
        /\ fsops = <<>>
        /\ cresult = NoProbeResult(source, flags)

----------------------------------------------------------------------------
(* Further properties of JsonIOReader.read, checked under ReadSpec *)

\* C26: a reader whose flags lack NETWORK_SOURCES performs no network fetch,
\* whatever source it is asked to read.
C26_NoFetchWithoutFlag ==
    "NETWORK_SOURCES" \notin rdopts.reader_flags => ~InLog("urlopen")

----------------------------------------------------------------------------
(* Two concurrent probing classifications, checked under ProbersSpec *)

BothFinished == \A t \in Callers : ppc[t] = "done"

FsLogged(op) == \E i \in 1..Len(fsops) : fsops[i] = op

\* C30 as written: after two concurrent probing classifications of a path
\* that did not exist, no file exists at that path, however their create and
\* remove steps were interleaved.
C30_Original ==
    (BothFinished /\ Probes(flags) /\ fs0 = "absent") => fs = "absent"

\* C30: after two concurrent probing classifications of a path that did not
\* exist, no file exists at that path under any interleaving of their create
\* and remove steps, unless a remove step failed while the file was there;
\* a remove step that finds the file already removed leaves no file either.
C30_ConcurrentProbeResidue ==
    (BothFinished /\ Probes(flags) /\ fs0 = "absent") =>
        /\ fs \in {"absent", "file"}
        /\ (fs = "file" => FsLogged("unlink refused"))
        /\ (fsops # <<>> /\ fsops[Len(fsops)] \in {"unlink", "unlink missing"} => fs = "absent")

C30_Witness ==
    /\ BothFinished /\ Probes(flags) /\ fs0 = "absent" /\ fs = "absent"
    /\ fsops = <<"touch", "touch", "unlink", "unlink missing">>

====
